---- MODULE Spec2Model ----
(***************************************************************************)
(* The action execution engine of src/actions.py: execute_actions (the run *)
(* coordinator), _execute_action_group (the group executor),               *)
(* _execute_single_action (the action dispatcher), _evaluate_condition     *)
(* and the report ActionExecutionResults.                                  *)
(*                                                                         *)
(* The browser driver is the environment.  Each query of a condition gets  *)
(* one of the answers "yes", "no" or "error" (the driver raises), and each *)
(* executor either returns its message ("ok") or raises ("raise").         *)
(*                                                                         *)
(* The declared list is fixed in Init by its structure: which entries have *)
(* a 'steps' key and how many steps each group declares.  The fields of an *)
(* entry (type, condition, continueOnError, waitAfter) are read by the     *)
(* code with .get() when the loop reaches the entry, and are drawn at that *)
(* point; the entry handed to the dispatcher last is kept in `last`.       *)
(***************************************************************************)
EXTENDS Integers, Sequences, FiniteSets, TLC

VARIABLES
    actions,                  \* the declared list: its entries' structure
    pc,                       \* where execute_actions is
    pos,                      \* entries the loop of execute_actions has taken
    current_index,            \* execute_actions: current_index
    results,                  \* execute_actions: results, the report
    group_flag,               \* _execute_action_group: the group's
                              \* continueOnError key, "absent" outside
    gi,                       \* _execute_action_group: i of its loop
    group_results,            \* _execute_action_group: results
    last,                     \* the step handed to the dispatcher last,
                              \* and the index it was given
    trace                     \* the driver interactions and pauses so far

vars ==
    <<actions, pc, pos, current_index, results, group_flag,
      gi, group_results, last, trace>>

----------------------------------------------------------------------------
(* Bounds of the model *)

MaxActions == 2

MaxSteps == 2

MaxDeclared == 2

----------------------------------------------------------------------------
(* Input domains *)

ActionTypes == {"wait", "click", "type", "press_enter", "execute_script"}

(* Every type of ActionTypes and one that is none of them *)
StepTypes == ActionTypes \cup {"bogus"}

ConditionKinds ==
    {"none", "ifExists", "ifNotExists", "ifVisible", "ifHidden",
     "ifTextMatches", "ifUrlMatches", "ifCustom", "other"}


Flags == {"absent", "true", "false"}

WaitAfters == {0, 100}

DriverAnswers == {"yes", "no", "error"}

ExecutorOutcomes == {"ok", "raise"}

(* Every step: the entries of SpecOne, which runs a list of one action *)
AllSteps ==
    [type : StepTypes, condition : ConditionKinds,
     continueOnError : Flags, waitAfter : WaitAfters]

(* The steps of Spec, which runs whole lists: one recognized type, with no
   condition or with one that the driver answers, and no waitAfter *)
RunSteps ==
    [type : {"click"}, condition : {"none", "ifExists"},
     continueOnError : Flags, waitAfter : {0}]

GroupHeaders ==
    [condition : {"none", "ifExists", "ifUrlMatches"},
     continueOnError : Flags]

NoStep ==
    [type |-> "none", condition |-> "none",
     continueOnError |-> "absent", waitAfter |-> 0]

NoLast == [step |-> NoStep, index |-> -1]

EntryShapes ==
    {[hasSteps |-> FALSE, nsteps |-> 0]}
        \cup {[hasSteps |-> TRUE, nsteps |-> n] : n \in 0..MaxSteps}

(* Steps an entry declares: a group its len(steps), a single action 1 *)
Declared(entry) == IF entry.hasSteps THEN entry.nsteps ELSE 1

RECURSIVE DeclaredIn(_)
DeclaredIn(list) ==
    IF list = <<>> THEN 0
    ELSE Declared(Head(list)) + DeclaredIn(Tail(list))

ActionLists ==
    {list \in UNION {[1..n -> EntryShapes] : n \in 0..MaxActions} :
        DeclaredIn(list) <= MaxDeclared}

----------------------------------------------------------------------------
(* ActionResult and ActionExecutionResults *)

ActionResult(index, action_type, status, duration, message, error) ==
    [index |-> index, type |-> action_type, status |-> status,
     duration |-> duration, message |-> message, error |-> error]

(* The constructor with duration and error left at their defaults *)
ActionResultDefault(index, action_type, status, message) ==
    ActionResult(index, action_type, status, 0, message, "")

NewResults ==
    [details |-> <<>>, executed |-> 0, successful |-> 0,
     failed |-> 0, skipped |-> 0]

(* add_result without its branch for 'skipped' *)
add_result_SkippedUncounted(report, result) ==
    LET appended == [report EXCEPT !.details = Append(@, result)]
    IN  IF result.status = "success"
        THEN [appended EXCEPT !.successful = @ + 1, !.executed = @ + 1]
        ELSE IF result.status = "failed"
        THEN [appended EXCEPT !.failed = @ + 1, !.executed = @ + 1]
        ELSE appended

(* add_result that does not count a failed result as executed *)
add_result_FailedNotExecuted(report, result) ==
    LET appended == [report EXCEPT !.details = Append(@, result)]
    IN  IF result.status = "success"
        THEN [appended EXCEPT !.successful = @ + 1, !.executed = @ + 1]
        ELSE IF result.status = "failed"
        THEN [appended EXCEPT !.failed = @ + 1]
        ELSE IF result.status = "skipped"
        THEN [appended EXCEPT !.skipped = @ + 1]
        ELSE appended

add_result(report, result) ==
    LET appended == [report EXCEPT !.details = Append(@, result)]
    IN  IF result.status = "success"
        THEN [appended EXCEPT !.successful = @ + 1, !.executed = @ + 1]
        ELSE IF result.status = "failed"
        THEN [appended EXCEPT !.failed = @ + 1, !.executed = @ + 1]
        ELSE IF result.status = "skipped"
        THEN [appended EXCEPT !.skipped = @ + 1]
        ELSE appended

RECURSIVE add_results(_, _)
add_results(report, list) ==
    IF list = <<>> THEN report
    ELSE add_results(add_result(report, Head(list)), Tail(list))

----------------------------------------------------------------------------
(* Driver interactions, as they are recorded in trace *)

(* op: "cond" and "group_cond" (a condition is evaluated), "exec" (an
   executor runs), "waitAfter" (the post-delay), "pause_group" and
   "pause_top" (the random pause of a loop).  err: the driver raised.
   out: "true", "false" or "raise" for a condition, "ok" or "raise" for an
   executor, "slept" for a delay.  index: the index of the step; for a group
   condition the base index of the group *)
Event(op, index, err, out) ==
    [op |-> op, index |-> index, err |-> err, out |-> out]

(* _element_exists and _element_visible: an exception of the driver is False *)
_element_exists(answer) == answer = "yes"

_element_visible(answer) == answer = "yes"

(* The conditions that query the driver: the seven recognized keys *)
Consults(condition) == condition \in ConditionKinds \ {"none", "other"}

AnswersFor(condition) ==
    IF Consults(condition) THEN DriverAnswers ELSE {"unused"}

(* ifHidden answered as ifVisible is *)
_evaluate_condition_HiddenAsVisible(condition, answer) ==
    LET returns(b) == [raised |-> FALSE, value |-> b]
    IN  CASE condition = "none" -> returns(TRUE)
          [] condition = "ifExists" -> returns(_element_exists(answer))
          [] condition = "ifNotExists" -> returns(~_element_exists(answer))
          [] condition = "ifVisible" -> returns(_element_visible(answer))
          [] condition = "ifHidden" -> returns(_element_visible(answer))
          [] condition = "ifTextMatches" -> returns(answer = "yes")
          [] condition = "ifUrlMatches" ->
                IF answer = "error"
                THEN [raised |-> TRUE, value |-> FALSE]
                ELSE returns(answer = "yes")
          [] condition = "ifCustom" -> returns(answer = "yes")
          [] OTHER -> returns(TRUE)

(* _evaluate_condition: raised when the exception leaves the function,
   else value is the boolean returned *)
_evaluate_condition(condition, answer) ==
    LET returns(b) == [raised |-> FALSE, value |-> b]
    IN  CASE condition = "none" -> returns(TRUE)
          [] condition = "ifExists" -> returns(_element_exists(answer))
          [] condition = "ifNotExists" -> returns(~_element_exists(answer))
          [] condition = "ifVisible" -> returns(_element_visible(answer))
          [] condition = "ifHidden" -> returns(~_element_visible(answer))
          [] condition = "ifTextMatches" -> returns(answer = "yes")
          [] condition = "ifUrlMatches" ->
                IF answer = "error"
                THEN [raised |-> TRUE, value |-> FALSE]
                ELSE returns(answer = "yes")
          [] condition = "ifCustom" -> returns(answer = "yes")
          [] OTHER -> returns(TRUE)

ConditionEvents(op, condition, index, answer) ==
    IF condition = "none" THEN <<>>
    ELSE <<Event(op, index, Consults(condition) /\ answer = "error",
                 LET c == _evaluate_condition(condition, answer)
                 IN  IF c.raised THEN "raise"
                     ELSE IF c.value THEN "true" ELSE "false")>>

----------------------------------------------------------------------------
(* _execute_wait_action *)

(* The 'for' dict of a wait action: which of the keys 'time', 'selector',
   'event' and 'urlChange' it has, with the values of 'state' and 'event'
   ("absent": no such key; "other": a value the code does not name) *)
WaitFors ==
    [time : BOOLEAN, selector : BOOLEAN,
     state : {"absent", "visible", "hidden", "present", "other"},
     event : {"absent", "load", "DOMContentLoaded", "other"},
     urlChange : BOOLEAN]

(* The waits that poll the driver until a timeout *)
Blocking(variant) == variant \notin {"time", "default"}

(* A wait that returns its message although the timeout elapsed *)
_execute_wait_action_TimeoutIgnored(wait_for, met) ==
    LET state == IF wait_for.state = "absent" THEN "visible"
                 ELSE wait_for.state
        variant ==
            IF wait_for.time THEN "time"
            ELSE IF wait_for.selector /\ state \in {"visible", "hidden", "present"}
            THEN state
            ELSE IF wait_for.event \in {"load", "DOMContentLoaded"}
            THEN wait_for.event
            ELSE IF wait_for.urlChange THEN "urlChange"
            ELSE "default"
    IN  [variant |-> variant, raised |-> FALSE]

(* _execute_wait_action: the wait it makes, and whether it raised.  met: the
   driver shows the awaited condition before the timeout; when it does not,
   WebDriverWait.until raises TimeoutException and _get_element raises
   NoSuchElementException *)
_execute_wait_action(wait_for, met) ==
    LET state == IF wait_for.state = "absent" THEN "visible"
                 ELSE wait_for.state
        variant ==
            IF wait_for.time THEN "time"
            ELSE IF wait_for.selector /\ state \in {"visible", "hidden", "present"}
            THEN state
            ELSE IF wait_for.event \in {"load", "DOMContentLoaded"}
            THEN wait_for.event
            ELSE IF wait_for.urlChange THEN "urlChange"
            ELSE "default"
    IN  [variant |-> variant, raised |-> Blocking(variant) /\ ~met]

----------------------------------------------------------------------------
(* _execute_single_action: the result and the driver interactions made *)

OutcomesFor(step) ==
    IF step.type \in ActionTypes THEN ExecutorOutcomes ELSE {"unused"}

(* An unrecognized type does nothing *)
Dispatch_UnknownIgnored(action_type, outcome) ==
    IF action_type \in ActionTypes
    THEN [ran |-> TRUE, raised |-> outcome = "raise",
          error |-> IF outcome = "raise" THEN "executor error" ELSE ""]
    ELSE [ran |-> FALSE, raised |-> FALSE, error |-> ""]

(* The if/elif chain on action_type: whether an executor ran, and whether
   the chain raised, with the text of the exception *)
Dispatch(action_type, outcome) ==
    IF action_type \in ActionTypes
    THEN [ran |-> TRUE, raised |-> outcome = "raise",
          error |-> IF outcome = "raise" THEN "executor error" ELSE ""]
    ELSE [ran |-> FALSE, raised |-> TRUE, error |-> "Unknown action type"]

(* The handler loses the text of the exception *)
FailedResult_NoError(index, action_type, duration, error_msg) ==
    ActionResult(index, action_type, "failed", duration, "Action failed", "")

(* The except branch: the result made of a caught exception *)
FailedResult(index, action_type, duration, error_msg) ==
    ActionResult(index, action_type, "failed", duration, "Action failed",
                 error_msg)

(* The post-delay is taken whether or not the step ran *)
_execute_single_action_AlwaysWaits(step, index, answer, outcome) ==
    LET c == _evaluate_condition(step.condition, answer)
        d == Dispatch(step.type, outcome)
        evalEvents == ConditionEvents("cond", step.condition, index, answer)
        execEvents ==
            IF d.ran THEN <<Event("exec", index, d.raised, outcome)>>
            ELSE <<>>
        waitEvents ==
            IF step.waitAfter > 0
            THEN <<Event("waitAfter", index, FALSE, "slept")>>
            ELSE <<>>
    IN  IF c.raised
        THEN [result |-> FailedResult(index, step.type, Len(evalEvents),
                                      "condition error"),
              events |-> evalEvents]
        ELSE IF ~c.value
        THEN [result |-> ActionResult(index, step.type, "skipped",
                                      Len(evalEvents \o waitEvents),
                                      "Condition not met", ""),
              events |-> evalEvents \o waitEvents]
        ELSE IF d.raised
        THEN [result |-> FailedResult(index, step.type,
                                      Len(evalEvents \o execEvents), d.error),
              events |-> evalEvents \o execEvents]
        ELSE [result |-> ActionResult(index, step.type, "success",
                                      Len(evalEvents \o execEvents
                                              \o waitEvents),
                                      "executor message", ""),
              events |-> evalEvents \o execEvents \o waitEvents]

(* The post-delay is taken although the executor raised *)
_execute_single_action_WaitsOnFailure(step, index, answer, outcome) ==
    LET c == _evaluate_condition(step.condition, answer)
        d == Dispatch(step.type, outcome)
        evalEvents == ConditionEvents("cond", step.condition, index, answer)
        execEvents ==
            IF d.ran THEN <<Event("exec", index, d.raised, outcome)>>
            ELSE <<>>
        waitEvents ==
            IF step.waitAfter > 0
            THEN <<Event("waitAfter", index, FALSE, "slept")>>
            ELSE <<>>
    IN  IF c.raised
        THEN [result |-> FailedResult(index, step.type, Len(evalEvents),
                                      "condition error"),
              events |-> evalEvents]
        ELSE IF ~c.value
        THEN [result |-> ActionResult(index, step.type, "skipped",
                                      Len(evalEvents),
                                      "Condition not met", ""),
              events |-> evalEvents]
        ELSE IF d.raised
        THEN [result |-> FailedResult(index, step.type,
                                      Len(evalEvents \o execEvents
                                              \o waitEvents), d.error),
              events |-> evalEvents \o execEvents \o waitEvents]
        ELSE [result |-> ActionResult(index, step.type, "success",
                                      Len(evalEvents \o execEvents
                                              \o waitEvents),
                                      "executor message", ""),
              events |-> evalEvents \o execEvents \o waitEvents]

(* _execute_single_action: the result, and the driver interactions made,
   in order.  The duration is the time from start_time, counted in driver
   interactions *)
_execute_single_action(step, index, answer, outcome) ==
    LET c == _evaluate_condition(step.condition, answer)
        d == Dispatch(step.type, outcome)
        evalEvents == ConditionEvents("cond", step.condition, index, answer)
        execEvents ==
            IF d.ran THEN <<Event("exec", index, d.raised, outcome)>>
            ELSE <<>>
        waitEvents ==
            IF step.waitAfter > 0
            THEN <<Event("waitAfter", index, FALSE, "slept")>>
            ELSE <<>>
    IN  IF c.raised
        THEN [result |-> FailedResult(index, step.type, Len(evalEvents),
                                      "condition error"),
              events |-> evalEvents]
        ELSE IF ~c.value
        THEN [result |-> ActionResult(index, step.type, "skipped",
                                      Len(evalEvents),
                                      "Condition not met", ""),
              events |-> evalEvents]
        ELSE IF d.raised
        THEN [result |-> FailedResult(index, step.type,
                                      Len(evalEvents \o execEvents), d.error),
              events |-> evalEvents \o execEvents]
        ELSE [result |-> ActionResult(index, step.type, "success",
                                      Len(evalEvents \o execEvents
                                              \o waitEvents),
                                      "executor message", ""),
              events |-> evalEvents \o execEvents \o waitEvents]

(* The step's own false overridden by the group's true *)
GetContinueOnError_DefaultWins(flag, default) == default \/ flag = "true"

(* Stops only on an explicit false *)
GetContinueOnError_AbsentContinues(flag, default) == flag # "false"

(* dict.get('continueOnError', default) of lines 410 and 461 *)
GetContinueOnError(flag, default) ==
    IF flag = "absent" THEN default ELSE flag = "true"

----------------------------------------------------------------------------
(* execute_actions *)

Init ==
    /\ actions \in ActionLists
    /\ pc = "loop"
    /\ pos = 0
    /\ current_index = 0
    /\ results = NewResults
    /\ group_flag = "absent"
    /\ gi = 0
    /\ group_results = <<>>
    /\ last = NoLast
    /\ trace = <<>>

TypesOf(Steps) == {step.type : step \in Steps}

(* Indices one too far *)
SkippedSteps_OffByOne(first_index, types, message) ==
    [k \in 1..Len(types) |->
        ActionResultDefault(first_index + k, types[k], "skipped", message)]

(* The results _execute_action_group makes itself, for steps it does not
   hand to the dispatcher: types[k] is the type of the k-th of them *)
SkippedSteps(first_index, types, message) ==
    [k \in 1..Len(types) |->
        ActionResultDefault(first_index + k - 1, types[k], "skipped", message)]

(* Omits the first step of the group *)
GroupSkipped_FromSecond(base_index, types) ==
    IF types = <<>> THEN <<>>
    ELSE SkippedSteps(base_index + 1, Tail(types), "Group condition not met")

(* The skip of the entire group: every step of it, from base_index *)
GroupSkipped(base_index, types) ==
    SkippedSteps(base_index, types, "Group condition not met")

(* The break without the marking of the remaining steps *)
RemainingSkipped_None(first_index, types) == <<>>

(* The marking of the steps after a failed one, from first_index *)
RemainingSkipped(first_index, types) ==
    SkippedSteps(first_index, types, "Skipped due to previous failure")

(* One iteration of the loop of execute_actions on a single action *)
SingleAction(Steps) ==
    /\ pc = "loop"
    /\ pos < Len(actions)
    /\ ~actions[pos + 1].hasSteps
    /\ \E step \in Steps :
       \E answer \in AnswersFor(step.condition), outcome \in OutcomesFor(step) :
          LET run == _execute_single_action(step, current_index, answer, outcome)
              stop == /\ run.result.status = "failed"
                      /\ ~GetContinueOnError(step.continueOnError, FALSE)
          IN  /\ results' = add_result(results, run.result)
              /\ current_index' = current_index + 1
              /\ last' = [step |-> step, index |-> current_index]
              /\ pos' = pos + 1
              /\ pc' = IF stop THEN "done" ELSE "loop"
              /\ trace' = trace \o run.events \o
                    (IF stop THEN <<>>
                     ELSE <<Event("pause_top", current_index, FALSE, "slept")>>)
    /\ UNCHANGED <<actions, group_flag, gi, group_results>>

(* execute_actions reaches a group: _execute_action_group up to its loop *)
GroupEnter(Steps) ==
    /\ pc = "loop"
    /\ pos < Len(actions)
    /\ actions[pos + 1].hasSteps
    /\ \E group \in GroupHeaders :
       \E answer \in AnswersFor(group.condition) :
          LET n == actions[pos + 1].nsteps
              c == _evaluate_condition(group.condition, answer)
          IN  /\ trace' = trace \o
                    ConditionEvents("group_cond", group.condition,
                                    current_index, answer)
              /\ gi' = 0
              /\ IF c.raised
                 THEN /\ pc' = "raised"
                      /\ group_results' = <<>>
                      /\ group_flag' = "absent"
                 ELSE IF ~c.value
                 THEN /\ pc' = "group_return"
                      /\ \E types \in [1..n -> TypesOf(Steps)] :
                            group_results' = GroupSkipped(current_index, types)
                      /\ group_flag' = "absent"
                 ELSE /\ pc' = IF n = 0 THEN "group_return" ELSE "group_loop"
                      /\ group_results' = <<>>
                      /\ group_flag' = group.continueOnError
    /\ pos' = pos + 1
    /\ UNCHANGED <<actions, current_index, results, last>>

(* continue_on_group_error of _execute_action_group *)
continue_on_group_error == GetContinueOnError(group_flag, FALSE)

(* Every step of the group dispatched with the base index of the group *)
GroupStep_BaseIndex(Steps) ==
    /\ pc = "group_loop"
    /\ \E step \in Steps :
       \E answer \in AnswersFor(step.condition), outcome \in OutcomesFor(step) :
          LET n == actions[pos].nsteps
              run == _execute_single_action(step, current_index,
                                            answer, outcome)
              stop ==
                  /\ run.result.status = "failed"
                  /\ ~GetContinueOnError(step.continueOnError,
                                         continue_on_group_error)
          IN  /\ last' = [step |-> step, index |-> current_index + gi]
              /\ IF stop
                 THEN /\ \E types \in [1..(n - gi - 1) -> TypesOf(Steps)] :
                            group_results' =
                                Append(group_results, run.result) \o
                                RemainingSkipped(current_index + gi + 1, types)
                      /\ trace' = trace \o run.events
                      /\ pc' = "group_return"
                      /\ gi' = gi
                 ELSE /\ group_results' = Append(group_results, run.result)
                      /\ trace' = trace \o run.events \o
                            <<Event("pause_group", current_index + gi,
                                    FALSE, "slept")>>
                      /\ gi' = gi + 1
                      /\ pc' = IF gi + 1 = n THEN "group_return"
                               ELSE "group_loop"
    /\ UNCHANGED <<actions, pos, current_index, results, group_flag>>

(* The check for stopping made on every result that is not a success *)
GroupStep_StopsOnSkipped(Steps) ==
    /\ pc = "group_loop"
    /\ \E step \in Steps :
       \E answer \in AnswersFor(step.condition), outcome \in OutcomesFor(step) :
          LET n == actions[pos].nsteps
              run == _execute_single_action(step, current_index + gi,
                                            answer, outcome)
              stop ==
                  /\ run.result.status # "success"
                  /\ ~GetContinueOnError(step.continueOnError,
                                         continue_on_group_error)
          IN  /\ last' = [step |-> step, index |-> current_index + gi]
              /\ IF stop
                 THEN /\ \E types \in [1..(n - gi - 1) -> TypesOf(Steps)] :
                            group_results' =
                                Append(group_results, run.result) \o
                                RemainingSkipped(current_index + gi + 1, types)
                      /\ trace' = trace \o run.events
                      /\ pc' = "group_return"
                      /\ gi' = gi
                 ELSE /\ group_results' = Append(group_results, run.result)
                      /\ trace' = trace \o run.events \o
                            <<Event("pause_group", current_index + gi,
                                    FALSE, "slept")>>
                      /\ gi' = gi + 1
                      /\ pc' = IF gi + 1 = n THEN "group_return"
                               ELSE "group_loop"
    /\ UNCHANGED <<actions, pos, current_index, results, group_flag>>

(* One iteration of the loop of _execute_action_group *)
GroupStep(Steps) ==
    /\ pc = "group_loop"
    /\ \E step \in Steps :
       \E answer \in AnswersFor(step.condition), outcome \in OutcomesFor(step) :
          LET n == actions[pos].nsteps
              run == _execute_single_action(step, current_index + gi,
                                            answer, outcome)
              stop ==
                  /\ run.result.status = "failed"
                  /\ ~GetContinueOnError(step.continueOnError,
                                         continue_on_group_error)
          IN  /\ last' = [step |-> step, index |-> current_index + gi]
              /\ IF stop
                 THEN /\ \E types \in [1..(n - gi - 1) -> TypesOf(Steps)] :
                            group_results' =
                                Append(group_results, run.result) \o
                                RemainingSkipped(current_index + gi + 1, types)
                      /\ trace' = trace \o run.events
                      /\ pc' = "group_return"
                      /\ gi' = gi
                 ELSE /\ group_results' = Append(group_results, run.result)
                      /\ trace' = trace \o run.events \o
                            <<Event("pause_group", current_index + gi,
                                    FALSE, "slept")>>
                      /\ gi' = gi + 1
                      /\ pc' = IF gi + 1 = n THEN "group_return"
                               ELSE "group_loop"
    /\ UNCHANGED <<actions, pos, current_index, results, group_flag>>

(* The global index advanced by one per group, not by its step count *)
GroupReturn_AdvanceByOne ==
    /\ pc = "group_return"
    /\ results' = add_results(results, group_results)
    /\ current_index' = current_index + 1
    /\ group_results' = <<>>
    /\ group_flag' = "absent"
    /\ gi' = 0
    /\ last' = NoLast
    /\ pc' = "loop"
    /\ UNCHANGED <<actions, pos, trace>>

(* _execute_action_group returns: execute_actions folds the results *)
GroupReturn ==
    /\ pc = "group_return"
    /\ results' = add_results(results, group_results)
    /\ current_index' = current_index + actions[pos].nsteps
    /\ group_results' = <<>>
    /\ group_flag' = "absent"
    /\ gi' = 0
    /\ last' = NoLast
    /\ pc' = "loop"
    /\ UNCHANGED <<actions, pos, trace>>

(* The list is exhausted: execute_actions returns the report *)
Return ==
    /\ pc = "loop"
    /\ pos = Len(actions)
    /\ pc' = "done"
    /\ UNCHANGED <<actions, pos, current_index, results, group_flag, gi,
                   group_results, last, trace>>

Next ==
    \/ SingleAction(RunSteps)
    \/ GroupEnter(RunSteps)
    \/ GroupStep(RunSteps)
    \/ GroupReturn
    \/ Return

Spec == Init /\ [][Next]_vars

(* execute_actions on a list of one single action, of any kind *)
InitOne ==
    /\ Init
    /\ actions = <<[hasSteps |-> FALSE, nsteps |-> 0]>>

NextOne ==
    \/ SingleAction(AllSteps)
    \/ Return

SpecOne == InitOne /\ [][NextOne]_vars

(* execute_actions on a list of one wait action with no condition, whose
   'for' dict is fixed in Init *)
WaitSteps ==
    [type : {"wait"}, condition : {"none"},
     continueOnError : Flags, waitAfter : WaitAfters]

InitWait ==
    /\ actions \in {<<[hasSteps |-> FALSE, nsteps |-> 0, for |-> wait_for]>> :
                        wait_for \in WaitFors}
    /\ pc = "loop"
    /\ pos = 0
    /\ current_index = 0
    /\ results = NewResults
    /\ group_flag = "absent"
    /\ gi = 0
    /\ group_results = <<>>
    /\ last = NoLast
    /\ trace = <<>>

(* One iteration of the loop of execute_actions on a wait action: the
   outcome of the executor is the one of _execute_wait_action, and the wait
   it made is recorded ("wait") ahead of the return of the executor *)
WaitAction ==
    /\ pc = "loop"
    /\ pos < Len(actions)
    /\ ~actions[pos + 1].hasSteps
    /\ \E step \in WaitSteps, met \in BOOLEAN :
          LET w == _execute_wait_action(actions[pos + 1].for, met)
              run == _execute_single_action(step, current_index, "unused",
                                            IF w.raised THEN "raise" ELSE "ok")
              stop == /\ run.result.status = "failed"
                      /\ ~GetContinueOnError(step.continueOnError, FALSE)
          IN  /\ results' = add_result(results, run.result)
              /\ current_index' = current_index + 1
              /\ last' = [step |-> step, index |-> current_index]
              /\ pos' = pos + 1
              /\ pc' = IF stop THEN "done" ELSE "loop"
              /\ trace' = trace \o
                    <<Event("wait", current_index,
                            Blocking(w.variant) /\ ~met, w.variant)>> \o
                    run.events \o
                    (IF stop THEN <<>>
                     ELSE <<Event("pause_top", current_index, FALSE, "slept")>>)
    /\ UNCHANGED <<actions, group_flag, gi, group_results>>

NextWait ==
    \/ WaitAction
    \/ Return

SpecWait == InitWait /\ [][NextWait]_vars

(* execute_actions on a list of one single action whose condition is fixed
   in Init together with what the driver will answer to its query ("yes":
   the element exists, is visible, the pattern is found, the script result
   is truthy; "no": the opposite; "error": the driver raises) *)
InitCond ==
    /\ actions \in {<<[hasSteps |-> FALSE, nsteps |-> 0,
                        condition |-> condition, answer |-> answer]>> :
                        condition \in ConditionKinds, answer \in DriverAnswers}
    /\ pc = "loop"
    /\ pos = 0
    /\ current_index = 0
    /\ results = NewResults
    /\ group_flag = "absent"
    /\ gi = 0
    /\ group_results = <<>>
    /\ last = NoLast
    /\ trace = <<>>

(* One iteration of the loop of execute_actions on that action *)
CondAction ==
    /\ pc = "loop"
    /\ pos < Len(actions)
    /\ ~actions[pos + 1].hasSteps
    /\ \E step \in AllSteps :
       \E outcome \in OutcomesFor(step) :
          LET run == _execute_single_action(step, current_index,
                                            actions[pos + 1].answer, outcome)
              stop == /\ run.result.status = "failed"
                      /\ ~GetContinueOnError(step.continueOnError, FALSE)
          IN  /\ step.condition = actions[pos + 1].condition
              /\ step.waitAfter = 0
              /\ results' = add_result(results, run.result)
              /\ current_index' = current_index + 1
              /\ last' = [step |-> step, index |-> current_index]
              /\ pos' = pos + 1
              /\ pc' = IF stop THEN "done" ELSE "loop"
              /\ trace' = trace \o run.events \o
                    (IF stop THEN <<>>
                     ELSE <<Event("pause_top", current_index, FALSE, "slept")>>)
    /\ UNCHANGED <<actions, group_flag, gi, group_results>>

NextCond ==
    \/ CondAction
    \/ Return

SpecCond == InitCond /\ [][NextCond]_vars

----------------------------------------------------------------------------
(* Reading the state *)

(* Every result made so far: those folded into the report, then those the
   running group holds *)
Recorded == results.details \o group_results

HasResult(index) == \E k \in 1..Len(Recorded) : Recorded[k].index = index

ResultOf(index) ==
    Recorded[CHOOSE k \in 1..Len(Recorded) : Recorded[k].index = index]

(* The driver interactions made for the step of an index *)
StepEvents(index) ==
    {k \in 1..Len(trace) :
        /\ trace[k].index = index
        /\ trace[k].op \in {"cond", "exec", "waitAfter"}}

(* Steps declared by the entries the loop of execute_actions has taken *)
DeclaredTaken == DeclaredIn(SubSeq(actions, 1, pos))

(* The state is the one a single top-level action leaves *)
AfterSingle ==
    /\ pc \in {"loop", "done"}
    /\ pos >= 1
    /\ ~actions[pos].hasSteps
    /\ last # NoLast
    /\ last.index = current_index - 1

(* The state is the one a step dispatched by the running group leaves *)
AfterGroupStep ==
    /\ pc \in {"group_loop", "group_return"}
    /\ last # NoLast
    /\ last.index >= current_index

(* Position in the running group of the step dispatched last *)
LastPosition == last.index - current_index

----------------------------------------------------------------------------
(* C1 as stated: when execute_actions returns, executed + skipped is the
   number of steps the whole list declares (a group counts len(steps), a
   single action 1), and the report has no fewer results than that. *)
C1_AllDeclaredReported ==
    pc = "done" =>
        /\ results.executed + results.skipped = DeclaredIn(actions)
        /\ Len(results.details) >= DeclaredIn(actions)

(* C1 amended: when execute_actions returns, executed + skipped and the
   number of results both equal the number of steps declared by the entries
   up to and including the one the run ended on; the run ends before the end
   of the list only on a single top-level action that failed with
   continueOnError absent or false. *)
C1_TakenEntriesReported ==
    pc = "done" =>
        /\ results.executed + results.skipped = DeclaredTaken
        /\ Len(results.details) = DeclaredTaken
        /\ pos < Len(actions) =>
              /\ AfterSingle
              /\ ResultOf(last.index).status = "failed"
              /\ last.step.continueOnError \in {"absent", "false"}

C1_Witness ==
    /\ pc = "done"
    /\ pos = Len(actions)
    /\ Len(actions) = 2
    /\ results.failed = 1
    /\ results.skipped = 1

(* C2: the indices of the results of the report are 0, 1, 2, ... in order,
   whatever was skipped, propagated or failed. *)
C2_IndicesContiguous ==
    \A k \in 1..Len(results.details) : results.details[k].index = k - 1

C2_Witness ==
    /\ pc = "done"
    /\ Len(results.details) = 2
    /\ results.details[1].status = "failed"
    /\ results.details[2].message = "Skipped due to previous failure"

(* C3: a single top-level action that ends failed with continueOnError
   absent or false stops the run: execute_actions returns, its result is the
   last of the report, nothing is recorded for the entries after it and no
   step of the program is taken any more. *)
C3_TopLevelFailureStops ==
    ( /\ AfterSingle
      /\ ResultOf(last.index).status = "failed"
      /\ last.step.continueOnError \in {"absent", "false"} )
    => /\ pc = "done"
       /\ results.details[Len(results.details)].index = last.index
       /\ Len(results.details) = DeclaredTaken
       /\ \A k \in 1..Len(trace) : trace[k].index <= last.index
       /\ ~ENABLED Next

C3_Witness ==
    /\ AfterSingle
    /\ ResultOf(last.index).status = "failed"
    /\ last.step.continueOnError = "absent"
    /\ pos < Len(actions)
    /\ actions[pos + 1].hasSteps

(* C4: when the step at position i of a group fails and its effective
   continue-on-error is false, the group of N steps returns N results, those
   at positions i+1..N-1 skipped with 'Skipped due to previous failure' and
   duration 0, and no condition is evaluated and no executor run for them. *)
C4_FailurePropagates ==
    ( /\ AfterGroupStep
      /\ ResultOf(last.index).status = "failed"
      /\ ~GetContinueOnError(last.step.continueOnError,
                             continue_on_group_error) )
    => /\ pc = "group_return"
       /\ Len(group_results) = actions[pos].nsteps
       /\ \A k \in (LastPosition + 2)..Len(group_results) :
             /\ group_results[k].index = current_index + k - 1
             /\ group_results[k].status = "skipped"
             /\ group_results[k].message = "Skipped due to previous failure"
             /\ group_results[k].duration = 0
             /\ StepEvents(group_results[k].index) = {}

C4_Witness ==
    /\ AfterGroupStep
    /\ ResultOf(last.index).status = "failed"
    /\ last.step.continueOnError = "false"
    /\ continue_on_group_error
    /\ LastPosition = 0
    /\ Len(group_results) = 2
    /\ group_results[2].status = "skipped"

(* The state is the one a group leaves whose condition was false *)
AfterGroupSkip ==
    /\ pc = "group_return"
    /\ trace # <<>>
    /\ trace[Len(trace)].op = "group_cond"
    /\ trace[Len(trace)].out = "false"

(* C5: a group whose condition evaluates false yields len(steps) results,
   all skipped with duration 0 and indices baseIndex..baseIndex+len(steps)-1,
   and no condition is evaluated and no executor run for its steps. *)
C5_GroupSkip ==
    AfterGroupSkip =>
        /\ Len(group_results) = actions[pos].nsteps
        /\ \A k \in 1..Len(group_results) :
              /\ group_results[k].index = current_index + k - 1
              /\ group_results[k].status = "skipped"
              /\ group_results[k].duration = 0
              /\ StepEvents(group_results[k].index) = {}

C5_Witness ==
    /\ AfterGroupSkip
    /\ current_index = 0
    /\ Len(group_results) = 2

(* C6: a step handed to the dispatcher whose own condition evaluates false
   gets a skipped result, and neither its executor nor its waitAfter delay
   is invoked, whatever its type. *)
C6_FalseConditionSkips ==
    \A k \in 1..Len(trace) :
        (trace[k].op = "cond" /\ trace[k].out = "false") =>
            /\ HasResult(trace[k].index)
            /\ ResultOf(trace[k].index).status = "skipped"
            /\ \A j \in StepEvents(trace[k].index) : trace[j].op = "cond"

C6_Witness ==
    /\ AfterSingle
    /\ last.step.type = "bogus"
    /\ last.step.waitAfter > 0
    /\ \E k \in 1..Len(trace) : trace[k].op = "cond" /\ trace[k].out = "false"
    /\ ResultOf(last.index).status = "skipped"

(* C7: every error of an executor, and the error of an unrecognized type,
   becomes a result with status failed that carries the text of the error;
   it is not re-raised, so execute_actions goes on to return a report. *)
C7_ErrorsBecomeFailed ==
    /\ pc # "raised"
    /\ \A k \in 1..Len(trace) :
          (trace[k].op = "exec" /\ trace[k].err) =>
              /\ HasResult(trace[k].index)
              /\ ResultOf(trace[k].index).status = "failed"
              /\ ResultOf(trace[k].index).error = "executor error"
    /\ \A k \in 1..Len(Recorded) :
          Recorded[k].status = "failed" => Recorded[k].error # ""

C7_Witness ==
    /\ pc = "done"
    /\ \E k \in 1..Len(trace) : trace[k].op = "exec" /\ trace[k].err
    /\ results.failed = 1
    /\ last.step.type = "execute_script"

(* C8 as stated: an error raised while a condition is evaluated, of a step
   or of a group, makes the condition false: the gated step is recorded as
   skipped, never as failed, and the error never leaves execute_actions. *)
C8_ConditionErrorsSkip ==
    /\ pc # "raised"
    /\ \A k \in 1..Len(trace) :
          (trace[k].op \in {"cond", "group_cond"} /\ trace[k].err) =>
              /\ trace[k].out = "false"
              /\ trace[k].op = "cond" =>
                    ResultOf(trace[k].index).status = "skipped"

(* C9 as stated: a step of unrecognized type handed to the dispatcher gets
   status failed, never skipped, whatever its condition. *)
C9_UnknownTypeAlwaysFails ==
    \A k \in 1..Len(Recorded) :
        Recorded[k].type \notin ActionTypes => Recorded[k].status = "failed"

(* C9 amended: a step of unrecognized type handed to the dispatcher never
   has an executor run and never succeeds; when its condition is absent or
   evaluates true its result is failed with the error 'Unknown action type',
   and it is skipped exactly when its own condition evaluates false. *)
C9_UnknownTypeFailsUnlessSkipped ==
    \A k \in 1..Len(Recorded) :
        Recorded[k].type \notin ActionTypes =>
            LET index == Recorded[k].index
                outs == {trace[j].out : j \in StepEvents(index)}
            IN  /\ \A j \in StepEvents(index) : trace[j].op = "cond"
                /\ Recorded[k].status # "success"
                /\ Recorded[k].status = "skipped" <=> "false" \in outs
                /\ outs \subseteq {"true"} =>
                      /\ Recorded[k].status = "failed"
                      /\ Recorded[k].error = "Unknown action type"

C9_Witness ==
    /\ AfterSingle
    /\ last.step.type = "bogus"
    /\ last.step.condition = "ifHidden"
    /\ ResultOf(last.index).error = "Unknown action type"

(* C10: after a failed step of a group the effective continue-on-error is
   the step's own continueOnError when it has one, else the group's, else
   false; when it is true the group goes on with the next step, when it is
   false the group stops with every remaining step recorded. *)
C10_EffectiveContinueOnError ==
    ( AfterGroupStep /\ ResultOf(last.index).status = "failed" ) =>
        LET effective ==
                IF last.step.continueOnError # "absent"
                THEN last.step.continueOnError = "true"
                ELSE IF group_flag # "absent" THEN group_flag = "true"
                ELSE FALSE
            n == actions[pos].nsteps
        IN  IF effective
            THEN /\ gi = LastPosition + 1
                 /\ Len(group_results) = gi
                 /\ pc = IF gi < n THEN "group_loop" ELSE "group_return"
            ELSE /\ gi = LastPosition
                 /\ Len(group_results) = n
                 /\ pc = "group_return"

C10_Witness ==
    /\ AfterGroupStep
    /\ ResultOf(last.index).status = "failed"
    /\ last.step.continueOnError = "absent"
    /\ group_flag = "true"
    /\ pc = "group_loop"
    /\ gi = 1

(* Number of results of the report that have a status *)
CountStatus(status) ==
    Cardinality({k \in 1..Len(results.details) :
                    results.details[k].status = status})

(* C11: at every point of a run the counters of the report equal the counts
   of its results: successful, failed and skipped are the numbers of results
   with that status, executed = successful + failed, and executed + skipped
   is the number of results. *)
C11_CountersMatchResults ==
    /\ results.successful = CountStatus("success")
    /\ results.failed = CountStatus("failed")
    /\ results.skipped = CountStatus("skipped")
    /\ results.executed = results.successful + results.failed
    /\ results.executed + results.skipped = Len(results.details)

C11_Witness ==
    /\ Len(results.details) = 2
    /\ results.details[1].status = "failed"
    /\ results.details[2].status = "success"
    /\ results.executed = 2

(* C12: whenever _execute_action_group returns, it returns exactly len(steps)
   results, with indices baseIndex..baseIndex+len(steps)-1 in order, whether
   the group was skipped, ran to its end or was stopped by a failure; and
   once execute_actions has folded them the global index has advanced by
   len(steps): it is the number of steps declared by the entries taken. *)
C12_GroupReturnsAllSteps ==
    /\ pc = "group_return" =>
          /\ Len(group_results) = actions[pos].nsteps
          /\ \A k \in 1..Len(group_results) :
                group_results[k].index = current_index + k - 1
    /\ pc \in {"loop", "done"} =>
          /\ current_index = DeclaredTaken
          /\ Len(results.details) = current_index

C12_Witness ==
    /\ pc = "loop"
    /\ pos = 2
    /\ actions[2].hasSteps
    /\ actions[2].nsteps = 1
    /\ current_index = 2
    /\ results.details[2].status = "failed"

(* C13 as stated: nothing that happens in a group halts the run.  The run
   comes to rest only when execute_actions has returned its report, and it
   returns before the end of the list only after a single top-level action
   that failed with continueOnError absent or false; from every other state,
   a returned group included, the loop goes on with the next entry. *)
C13_OnlySingleFailureStops ==
    ~ENABLED Next =>
        /\ pc = "done"
        /\ pos < Len(actions) =>
              /\ AfterSingle
              /\ ResultOf(last.index).status = "failed"
              /\ last.step.continueOnError \in {"absent", "false"}

(* C14: executors run one after another in increasing order of index: when
   the executor of a step starts, every step of smaller index already has
   its result and no executor has run for that index or a later one; so the
   executor of a step runs at most once, and the results are recorded in the
   order of the indices. *)
C14_SequentialExecution ==
    /\ [][\A k \in (Len(trace) + 1)..Len(trace') :
            trace'[k].op = "exec" =>
                /\ \A j \in 0..(trace'[k].index - 1) : HasResult(j)
                /\ \A e \in 1..Len(trace) :
                      trace[e].op = "exec" =>
                          trace[e].index < trace'[k].index]_vars
    /\ [](\A k \in 1..Len(Recorded) : Recorded[k].index = k - 1)

C14_Witness ==
    /\ AfterGroupStep
    /\ last.index = 1
    /\ \E e, f \in 1..Len(trace) :
          /\ e < f
          /\ trace[e].op = "exec" /\ trace[e].index = 0
          /\ trace[f].op = "exec" /\ trace[f].index = 1
    /\ ResultOf(0).status = "failed"

(* The post-delay was taken for the step of an index *)
WaitedAfter(index) ==
    \E k \in StepEvents(index) : trace[k].op = "waitAfter"

(* The executor of the step of an index ran and returned *)
ExecutorReturned(index) ==
    \E k \in StepEvents(index) : trace[k].op = "exec" /\ trace[k].out = "ok"

(* C15: the waitAfter delay of a step is taken exactly when its executor
   returned and waitAfter > 0; it is never taken for a step that ends
   skipped or failed, and a step for which it is taken ends success. *)
C15_WaitAfterOnlyOnSuccess ==
    AfterSingle =>
        /\ WaitedAfter(last.index) <=>
              (ExecutorReturned(last.index) /\ last.step.waitAfter > 0)
        /\ ResultOf(last.index).status \in {"skipped", "failed"} =>
              ~WaitedAfter(last.index)
        /\ WaitedAfter(last.index) =>
              ResultOf(last.index).status = "success"

C15_Witness ==
    /\ AfterSingle
    /\ last.step.waitAfter = 100
    /\ last.step.condition = "ifVisible"
    /\ WaitedAfter(last.index)
    /\ ResultOf(last.index).status = "success"
    /\ ResultOf(last.index).duration = 3

(* The random pause of the loop of _execute_action_group was taken after
   the step of an index *)
PausedInGroupAfter(index) ==
    \E k \in 1..Len(trace) :
        trace[k].op = "pause_group" /\ trace[k].index = index

(* C16 as stated: in a group the random pause follows a step only when the
   result of that step is success; none follows the step that stopped the
   group, and none comes before or after a step skipped because of a
   previous failure. *)
C16_GroupPauseOnlyAfterSuccess ==
    \A k \in 1..Len(Recorded) :
        LET index == Recorded[k].index
        IN  /\ PausedInGroupAfter(index) => Recorded[k].status = "success"
            /\ Recorded[k].message = "Skipped due to previous failure" =>
                  /\ ~PausedInGroupAfter(index)
                  /\ ~PausedInGroupAfter(index - 1)

(* The random pauses execute_actions has taken in its own loop *)
TopLevelPauses ==
    Cardinality({k \in 1..Len(trace) : trace[k].op = "pause_top"})

(* The entry taken last is a single action that stopped the run *)
StoppedByLast ==
    /\ AfterSingle
    /\ ResultOf(last.index).status = "failed"
    /\ last.step.continueOnError \in {"absent", "false"}

(* C17 as stated: execute_actions takes its random pause after every entry
   of the list that completed without stopping the run, group or single
   action, and none after the entry that stopped the run: between entries
   the pauses taken are as many as the entries taken that did not stop. *)
C17_TopLevelPauseAfterEveryEntry ==
    pc \in {"loop", "done"} =>
        TopLevelPauses = pos - (IF StoppedByLast THEN 1 ELSE 0)

(* The wait made for the step of an index *)
WaitOf(index) ==
    trace[CHOOSE k \in 1..Len(trace) :
              trace[k].op = "wait" /\ trace[k].index = index]

(* The variants of a 'for' dict that apply: a fixed time, an element state
   (one of visible, hidden, present; visible when no state is given), a page
   event (load or DOMContentLoaded), a URL change *)
Applicable(wait_for) ==
    {v \in {"time", "element", "event", "urlChange"} :
        \/ v = "time" /\ wait_for.time
        \/ v = "element" /\ wait_for.selector /\ wait_for.state # "other"
        \/ v = "event" /\ wait_for.event \in {"load", "DOMContentLoaded"}
        \/ v = "urlChange" /\ wait_for.urlChange}

VariantOrder == <<"time", "element", "event", "urlChange">>

(* The variant a wait belongs to *)
VariantOf(wait) ==
    IF wait \in {"visible", "hidden", "present"} THEN "element"
    ELSE IF wait \in {"load", "DOMContentLoaded"} THEN "event"
    ELSE wait

(* C18: a wait action makes the wait of the first variant that applies, in
   the order fixed time, element state (visible, hidden, present), page
   event (load, DOMContentLoaded), URL change, for the state or event its
   'for' names, and the default delay only when no variant applies; when the
   awaited condition is not shown before the timeout the result of the step
   is failed, and otherwise it is success. *)
C18_WaitVariantAndTimeout ==
    AfterSingle =>
        LET wait_for == actions[pos].for
            wait == WaitOf(last.index)
            first == CHOOSE k \in 1..Len(VariantOrder) :
                        /\ VariantOrder[k] \in Applicable(wait_for)
                        /\ \A j \in 1..(k - 1) :
                              VariantOrder[j] \notin Applicable(wait_for)
        IN  /\ wait.out = "default" <=> Applicable(wait_for) = {}
            /\ Applicable(wait_for) # {} =>
                  /\ VariantOf(wait.out) = VariantOrder[first]
                  /\ wait.out \in {"visible", "hidden", "present"} =>
                        wait.out = IF wait_for.state = "absent" THEN "visible"
                                   ELSE wait_for.state
                  /\ wait.out \in {"load", "DOMContentLoaded"} =>
                        wait.out = wait_for.event
            /\ wait.err <=> ResultOf(last.index).status = "failed"
            /\ ~wait.err <=> ResultOf(last.index).status = "success"

C18_Witness ==
    /\ AfterSingle
    /\ ~actions[pos].for.time
    /\ actions[pos].for.selector
    /\ actions[pos].for.state = "other"
    /\ actions[pos].for.event = "load"
    /\ actions[pos].for.urlChange
    /\ WaitOf(last.index).out = "load"
    /\ WaitOf(last.index).err
    /\ ResultOf(last.index).status = "failed"

(* What the evaluation of the condition of the step of an index returned:
   "true" or "false", "raise" when it raised, "none" when the step has no
   condition and the driver was not asked *)
ConditionOutcome(index) ==
    IF \E k \in StepEvents(index) : trace[k].op = "cond"
    THEN trace[CHOOSE k \in StepEvents(index) : trace[k].op = "cond"].out
    ELSE "none"

(* C19: with no condition, and with one of unrecognized shape, the
   condition is true (the step is not skipped); for a recognized condition
   that the driver answers, the value is the answer for ifExists, ifVisible,
   ifTextMatches, ifUrlMatches and ifCustom, and its negation for
   ifNotExists and ifHidden. *)
C19_ConditionValue ==
    AfterSingle =>
        LET condition == actions[pos].condition
            answer == actions[pos].answer
            value == ConditionOutcome(last.index)
        IN  /\ condition = "none" =>
                  /\ value = "none"
                  /\ ResultOf(last.index).status # "skipped"
            /\ condition = "other" =>
                  /\ value = "true"
                  /\ ResultOf(last.index).status # "skipped"
            /\ ( /\ condition \in {"ifExists", "ifVisible", "ifTextMatches",
                                   "ifUrlMatches", "ifCustom"}
                 /\ answer \in {"yes", "no"} ) =>
                  value = IF answer = "yes" THEN "true" ELSE "false"
            /\ ( /\ condition \in {"ifNotExists", "ifHidden"}
                 /\ answer \in {"yes", "no"} ) =>
                  value = IF answer = "yes" THEN "false" ELSE "true"
            /\ value = "false" <=> ResultOf(last.index).status = "skipped"

C19_Witness ==
    /\ AfterSingle
    /\ actions[pos].condition = "ifHidden"
    /\ actions[pos].answer = "yes"
    /\ ConditionOutcome(last.index) = "false"
    /\ ResultOf(last.index).status = "skipped"

(* C20: a step that ends skipped because its own condition is false stops
   nothing, whatever its continueOnError and that of its group: in a group
   its result is appended alone, no remaining step is marked skipped and the
   loop goes on with the next step (or the group returns after its last
   step); at top level the loop of execute_actions goes on. *)
C20_SkippedNeverStops ==
    [][ /\ ( /\ pc = "group_loop"
             /\ Len(group_results') > Len(group_results)
             /\ group_results'[gi + 1].status = "skipped" )
           => /\ Len(group_results') = gi + 1
              /\ gi' = gi + 1
              /\ pc' = IF gi' < actions[pos].nsteps THEN "group_loop"
                       ELSE "group_return"
        /\ ( /\ pc = "loop"
             /\ Len(results'.details) > Len(results.details)
             /\ results'.details[Len(results'.details)].status = "skipped" )
           => pc' = "loop" ]_vars

C20_Witness ==
    /\ AfterGroupStep
    /\ ResultOf(last.index).status = "skipped"
    /\ last.step.continueOnError = "false"
    /\ group_flag = "false"
    /\ LastPosition = 0
    /\ pc = "group_loop"

====
